---- MODULE Spec2Model ----
(***************************************************************************)
(* A model of dpark/job.py: SimpleJob, the task placement and fault        *)
(* recovery of one job.  Task indices are 0-based as in the code.  Each    *)
(* entry point (slaveOffer, statusUpdate, check_task_timeout) is one       *)
(* atomic action; time.time() is the integer variable clock, advanced by   *)
(* Tick.  The scheduler (self.sched) is the record sched, which counts     *)
(* the calls the job makes on it.                                          *)
(***************************************************************************)
EXTENDS Integers, Sequences, FiniteSets, TLC

\* ---- program constants (job.py:9-14, 36-38, 238, 264) ----
TASK_STARTING == 0
TASK_RUNNING == 1
TASK_FINISHED == 2
TASK_FAILED == 3
TASK_KILLED == 4
TASK_LOST == 5

LOCALITY_WAIT == 0
WAIT_FOR_RUNNING == 15
MAX_TASK_FAILURES == 4
CHECK_INTERVAL == 5
STRAGGLER_MIN == 30
DEFAULT_AVERAGE == 10
MIN_AVERAGE == 5

\* ---- bounds of the model ----
NumTasks == 2        \* Init draws jobs of 1..NumTasks tasks
NumHosts == 2        \* hosts 1..NumHosts make offers
MaxElapsed == 32     \* the clock stops at StartTime + MaxElapsed
MaxFailures == 5     \* no Failed/Lost report once numFailures[i] reached it
MaxRequests == 1     \* no Killed report once requestMoreResources reached it
NumJobs == 3         \* threads 1..NumJobs each construct one Job

\* seconds per Tick: one Tick passes WAIT_FOR_RUNNING, two pass STRAGGLER_MIN
TickStep == WAIT_FOR_RUNNING + 1

\* time.time() when the job is constructed
StartTime == 100

\* Python's None, for an index, a host, a time or a status not yet set
None == -1

Statuses == {TASK_STARTING, TASK_RUNNING, TASK_FINISHED, TASK_FAILED,
             TASK_KILLED, TASK_LOST}
LossStatuses == {TASK_LOST, TASK_FAILED, TASK_KILLED}
\* reason: an instance of schedule.FetchFailed, or anything else
Reasons == {"FetchFailed", "oom"}

VARIABLES
    cfg,                      \* the constructor's inputs and the run's limits
    clock,                    \* time.time()
    launched, finished, numFailures, blacklist, tidToIndex,
    tasksLaunched, tasksFinished, total_used, lastPreferredLaunchTime,
    pendingTasksForHost, pendingTasksWithNoPrefs, allPendingTasks,
    failed, causeOfFailure, last_check, host_cache,
    task,                     \* task[i]: the fields of self.tasks[i]
    sched,                    \* calls made on self.sched, counted
    nextJobId,                \* the class attribute Job.nextJobId
    ctor,                     \* ctor[t]: thread t's position in Job.__init__
    issued,                   \* the ids newJobId has returned, in order
    scen,                     \* progress through the scenario script
    offerRun                  \* number of calls so far, while all were slaveOffer
                              \* and no more than numTasks were made

jobVars == <<launched, finished, numFailures, blacklist, tidToIndex,
             tasksLaunched, tasksFinished, total_used, lastPreferredLaunchTime,
             failed, causeOfFailure, last_check, host_cache>>
pendingVars == <<pendingTasksForHost, pendingTasksWithNoPrefs, allPendingTasks>>
jobIdVars == <<nextJobId, ctor, issued>>
vars == <<cfg, clock, jobIdVars, jobVars, pendingVars, task, sched, scen, offerRun>>

\* ---- helpers ----
numTasks == cfg.numTasks
Indices == 0 .. (numTasks - 1)

\* task.id of self.tasks[i]; ids are distinct and are not the indices
TaskId(i) == i + 1
\* tidToIndex is the dict as a function on Tids: None where it has no entry
Tracked(tid) == tidToIndex[tid] # None
\* a tid no task of the job carries
UnknownTid == numTasks + 1
Tids == 1 .. (numTasks + 1)

Max(S) == CHOOSE x \in S : \A y \in S : y <= x

\* [0, 1, .., n-1]
Range0(n) == [k \in 1 .. n |-> k - 1]

\* launched.count(True)
CountTrue(f) == Cardinality({i \in DOMAIN f : f[i]})

\* ---- construction (job.py:45-76, 84-91) ----

\* the hosts that make offers, and the identities names resolve to
Hosts == cfg.hosts

\* addPendingTask for i = 0 .. numTasks-1: the three pending structures.
\* pendingTasksForHost[h] is <<>> where the dict has no entry (get(h, [])).
PendingForHost(c) ==
    [h \in c.hosts |-> SelectSeq(Range0(c.numTasks), LAMBDA i : h \in c.prefs[i])]
PendingNoPrefs(c) == SelectSeq(Range0(c.numTasks), LAMBDA i : c.prefs[i] = {})
AllPending(c) == Range0(c.numTasks)

\* no call made yet on the scheduler; taskEnded is counted per task index
NewSched(c) ==
    [taskEndedSuccess |-> [i \in 0 .. (c.numTasks - 1) |-> 0],
     taskEndedFailure |-> [i \in 0 .. (c.numTasks - 1) |-> 0],
     killTask |-> 0, jobFinished |-> 0, shutdown |-> 0, requestMoreResources |-> 0]


\* ---- Job.__init__ and Job.newJobId (job.py:16-19, 30-34) ----

Threads == 1 .. NumJobs

\* a thread about to call newJobId, and one whose Job has the id n
Calling == [pc |-> "call", val |-> None, id |-> None]
Constructed(n) == [pc |-> "done", val |-> n - 1, id |-> n]

\* cls.nextJobId += 1 reads the attribute, adds one and stores the sum in
\* separate bytecodes, and return cls.nextJobId reads the attribute again:
\* another thread can run between any two of them
newJobIdLoad(t) ==
    /\ ctor[t].pc = "call"
    /\ ctor' = [ctor EXCEPT ![t] = [@ EXCEPT !.pc = "loaded", !.val = nextJobId]]
    /\ UNCHANGED <<nextJobId, issued>>

newJobIdStore(t) ==
    /\ ctor[t].pc = "loaded"
    /\ nextJobId' = ctor[t].val + 1
    /\ ctor' = [ctor EXCEPT ![t] = [@ EXCEPT !.pc = "stored"]]
    /\ UNCHANGED issued

newJobIdReturn(t) ==
    /\ ctor[t].pc = "stored"
    /\ ctor' = [ctor EXCEPT ![t] = [@ EXCEPT !.pc = "done", !.id = nextJobId]]
    /\ issued' = Append(issued, nextJobId)
    /\ UNCHANGED nextJobId

\* no Job constructed yet (job.py:30)
NoJobYet ==
    /\ nextJobId = 0
    /\ ctor = [t \in Threads |-> Calling]
    /\ issued = <<>>

\* thread 1 has constructed the first Job of the process, alone
OneJob ==
    /\ nextJobId = 1
    /\ ctor = [t \in Threads |-> IF t = 1 THEN Constructed(1) ELSE Calling]
    /\ issued = <<1>>

\* the fields SimpleJob.__init__ sets
JobFields(c) ==
    /\ cfg = c
    /\ clock = StartTime
    /\ launched = [i \in 0 .. (c.numTasks - 1) |-> FALSE]
    /\ finished = [i \in 0 .. (c.numTasks - 1) |-> FALSE]
    /\ numFailures = [i \in 0 .. (c.numTasks - 1) |-> 0]
    /\ blacklist = [i \in 0 .. (c.numTasks - 1) |-> {}]
    /\ tidToIndex = [t \in 1 .. (c.numTasks + 1) |-> None]
    /\ tasksLaunched = 0
    /\ tasksFinished = 0
    /\ total_used = 0
    /\ lastPreferredLaunchTime = StartTime
    /\ pendingTasksForHost = PendingForHost(c)
    /\ pendingTasksWithNoPrefs = PendingNoPrefs(c)
    /\ allPendingTasks = AllPending(c)
    /\ failed = FALSE
    /\ causeOfFailure = ""
    /\ last_check = 0
    /\ host_cache = {}
    /\ task = [i \in 0 .. (c.numTasks - 1) |->
                 [status |-> None, start |-> None, host |-> None,
                  tried |-> 0, used |-> 0]]
    /\ sched = NewSched(c)
    /\ scen = <<>>
    /\ offerRun = 0

\* a SimpleJob just constructed, the first Job of its process
InitWith(c) == OneJob /\ JobFields(c)

\* ---- HostResolver and PendingTaskIndex (job.py:93-112) ----

\* socket.gethostbyname_ex(host) as [h] + hs + ips, or [host] when it fails
Resolve(host) == cfg.resolve[host]

RECURSIVE Concat(_)
Concat(ss) == IF ss = <<>> THEN <<>> ELSE Head(ss) \o Concat(Tail(ss))

\* number of occurrences of t in the sequence s
Count(t, s) == Cardinality({k \in 1 .. Len(s) : s[k] = t})

\* sorted(st.items(), key=itemgetter(1), reverse=True): descending count,
\* ties in the dict's order, which for small int keys is ascending
RECURSIVE SortByCount(_, _)
SortByCount(S, s) ==
    IF S = {} THEN <<>>
    ELSE LET best == CHOOSE t \in S :
                        \A u \in S : \/ Count(t, s) > Count(u, s)
                                     \/ Count(t, s) = Count(u, s) /\ t <= u
         IN <<best>> \o SortByCount(S \ {best}, s)

_getPendingTasksForHost(host) ==
    LET names == Resolve(host)
        tasks == Concat([k \in 1 .. Len(names) |-> pendingTasksForHost[names[k]]])
    IN SortByCount({tasks[k] : k \in 1 .. Len(tasks)}, tasks)

\* host_cache is the dict as a set of <<host, list>> pairs
Cached(host) == \E e \in host_cache : e[1] = host

getPendingTasksForHost(host) ==
    IF Cached(host) THEN (CHOOSE e \in host_cache : e[1] = host)[2]
    ELSE _getPendingTasksForHost(host)

\* ---- TaskAssignment (job.py:114-153) ----

\* findTaskFromList without the launched test
RECURSIVE findTaskFromList_ignoresLaunched(_, _)
findTaskFromList_ignoresLaunched(l, host) ==
    IF l = <<>> THEN None
    ELSE IF ~finished[Head(l)] /\ host \notin blacklist[Head(l)]
         THEN Head(l)
         ELSE findTaskFromList_ignoresLaunched(Tail(l), host)

\* findTaskFromList without the blacklist test
RECURSIVE findTaskFromList_ignoresBlacklist(_, _)
findTaskFromList_ignoresBlacklist(l, host) ==
    IF l = <<>> THEN None
    ELSE IF ~launched[Head(l)] /\ ~finished[Head(l)]
         THEN Head(l)
         ELSE findTaskFromList_ignoresBlacklist(Tail(l), host)

\* the first index of l that is not launched, not finished and has not host
\* in its blacklist, or None; the caller adds host to that index's blacklist
RECURSIVE findTaskFromList(_, _)
findTaskFromList(l, host) ==
    IF l = <<>> THEN None
    ELSE IF ~launched[Head(l)] /\ ~finished[Head(l)] /\ host \notin blacklist[Head(l)]
         THEN Head(l)
         ELSE findTaskFromList(Tail(l), host)

\* findTask without the fallback to allPendingTasks (job.py:127-128)
findTask_withoutFallback(host, localOnly) ==
    LET localTask == findTaskFromList(getPendingTasksForHost(host), host)
        noPrefTask == findTaskFromList(pendingTasksWithNoPrefs, host)
    IN IF localTask # None THEN [i |-> localTask, preferred |-> TRUE]
       ELSE IF noPrefTask # None THEN [i |-> noPrefTask, preferred |-> TRUE]
       ELSE [i |-> None, preferred |-> FALSE]

\* findTask trying the no-preference list before the host's own list
findTask_noPrefsFirst(host, localOnly) ==
    LET localTask == findTaskFromList(getPendingTasksForHost(host), host)
        noPrefTask == findTaskFromList(pendingTasksWithNoPrefs, host)
    IN IF noPrefTask # None THEN [i |-> noPrefTask, preferred |-> TRUE]
       ELSE IF localTask # None THEN [i |-> localTask, preferred |-> TRUE]
       ELSE IF ~localOnly
            THEN [i |-> findTaskFromList(allPendingTasks, host), preferred |-> FALSE]
            ELSE [i |-> None, preferred |-> FALSE]

findTask(host, localOnly) ==
    LET localTask == findTaskFromList(getPendingTasksForHost(host), host)
        noPrefTask == findTaskFromList(pendingTasksWithNoPrefs, host)
    IN IF localTask # None THEN [i |-> localTask, preferred |-> TRUE]
       ELSE IF noPrefTask # None THEN [i |-> noPrefTask, preferred |-> TRUE]
       ELSE IF ~localOnly
            THEN [i |-> findTaskFromList(allPendingTasks, host), preferred |-> FALSE]
            ELSE [i |-> None, preferred |-> FALSE]

\* ---- the scenario script (spec.md section 8, last item) ----

\* a scripted call: the attempt number of a report is left open
Scripted(op, arg, status, reason) ==
    [op |-> op, arg |-> arg, status |-> status, reason |-> reason]

\* hostA, hostB and hostC of the scenario are the hosts 1, 2 and 3; task0,
\* task1 and task2 carry the tids 1, 2 and 3
ScriptPrefix ==
    << Scripted("slaveOffer", 1, None, ""),
       Scripted("slaveOffer", 2, None, ""),
       Scripted("statusUpdate", 1, TASK_FINISHED, "oom"),
       Scripted("slaveOffer", 3, None, ""),
       Scripted("statusUpdate", 2, TASK_LOST, "oom"),
       Scripted("slaveOffer", 2, None, "") >>
ScriptEnd ==
    << Scripted("statusUpdate", 2, TASK_FINISHED, "oom"),
       Scripted("statusUpdate", 3, TASK_FINISHED, "oom") >>
\* the script as written: after the second offer from hostB, the two reports
ScriptB == ScriptPrefix \o ScriptEnd
\* the same with an offer from hostA before the two reports
ScriptA == ScriptPrefix \o << Scripted("slaveOffer", 1, None, "") >> \o ScriptEnd

ScenOff == << Scripted("off", None, None, "") >>

IsPrefix(p, s) == Len(p) <= Len(s) /\ \A k \in 1 .. Len(p) : p[k] = s[k]

\* scen is the calls made so far while they follow a script, else ScenOff
ScenAfter(op, arg, status, reason) ==
    LET h == Append(scen, Scripted(op, arg, status, reason))
    IN IF scen # ScenOff /\ (IsPrefix(h, ScriptA) \/ IsPrefix(h, ScriptB))
       THEN h ELSE ScenOff

\* ---- the clock ----

\* a timestamp d seconds further in the past, once the clock has reached the
\* end of the run and time is counted by moving every timestamp back instead;
\* a timestamp never set stays so, and ages stop growing at cfg.maxElapsed
Rebased(t, d) ==
    IF t = None \/ t = 0 THEN t ELSE Max({t - d, clock - cfg.maxElapsed})

\* time passes, by one of the steps the run allows.  The code reads the clock
\* only to compare and subtract timestamps, so moving now forward by d and
\* moving every timestamp back by d are the same to it.  A run with
\* cfg.endless goes on past its end in the second way, for ever; ages are
\* capped there, which is exact for a job that compares them with
\* CHECK_INTERVAL and WAIT_FOR_RUNNING only, as a job on which nothing
\* finishes does.
Tick ==
    \E d \in cfg.ticks :
        IF clock + d <= StartTime + cfg.maxElapsed
        THEN /\ clock' = clock + d
             /\ UNCHANGED <<cfg, jobIdVars, jobVars, pendingVars, task, sched,
                            scen, offerRun>>
        ELSE /\ cfg.endless
             /\ task' = [i \in Indices |-> [task[i] EXCEPT !.start = Rebased(@, d)]]
             /\ last_check' = Rebased(last_check, d)
             /\ lastPreferredLaunchTime' = Rebased(lastPreferredLaunchTime, d)
             /\ UNCHANGED <<cfg, clock, jobIdVars, pendingVars, sched, scen, offerRun,
                            launched, finished, numFailures, blacklist, tidToIndex,
                            tasksLaunched, tasksFinished, total_used, failed,
                            causeOfFailure, host_cache>>

\* ---- slaveOffer (job.py:134-153) ----

\* the index of the task the call returns, or None (job.py:136-138, 152-153)
slaveOfferResult(host) ==
    findTask(host, clock - lastPreferredLaunchTime < LOCALITY_WAIT).i

\* slaveOffer not recording the host in the index's blacklist (job.py:117)
slaveOffer_withoutRecord(host) ==
    LET now == clock
        localOnly == (now - lastPreferredLaunchTime < LOCALITY_WAIT)
        found == findTask(host, localOnly)
        i == found.i
    IN /\ host_cache' = IF Cached(host) THEN host_cache
                        ELSE host_cache \cup {<<host, _getPendingTasksForHost(host)>>}
       /\ IF i # None
          THEN /\ blacklist' = blacklist
               /\ task' = [task EXCEPT ![i] = [@ EXCEPT !.status = TASK_STARTING,
                                                        !.start = now,
                                                        !.host = host,
                                                        !.tried = @ + 1]]
               /\ tidToIndex' = [tidToIndex EXCEPT ![TaskId(i)] = i]
               /\ launched' = [launched EXCEPT ![i] = TRUE]
               /\ tasksLaunched' = tasksLaunched + 1
               /\ lastPreferredLaunchTime' =
                      IF found.preferred THEN now ELSE lastPreferredLaunchTime
          ELSE UNCHANGED <<blacklist, task, tidToIndex, launched, tasksLaunched,
                           lastPreferredLaunchTime>>
       /\ scen' = ScenAfter("slaveOffer", host, None, "")
       /\ offerRun' = IF offerRun # None /\ offerRun < numTasks THEN offerRun + 1 ELSE None
       /\ UNCHANGED <<cfg, jobIdVars, clock, pendingVars, finished, numFailures, tasksFinished,
                      total_used, failed, causeOfFailure, last_check, sched>>

slaveOffer(host) ==
    LET now == clock
        localOnly == (now - lastPreferredLaunchTime < LOCALITY_WAIT)
        found == findTask(host, localOnly)
        i == found.i
    IN /\ host_cache' = IF Cached(host) THEN host_cache
                        ELSE host_cache \cup {<<host, _getPendingTasksForHost(host)>>}
       /\ IF i # None
          THEN /\ blacklist' = [blacklist EXCEPT ![i] = @ \cup {host}]
               /\ task' = [task EXCEPT ![i] = [@ EXCEPT !.status = TASK_STARTING,
                                                        !.start = now,
                                                        !.host = host,
                                                        !.tried = @ + 1]]
               /\ tidToIndex' = [tidToIndex EXCEPT ![TaskId(i)] = i]
               /\ launched' = [launched EXCEPT ![i] = TRUE]
               /\ tasksLaunched' = tasksLaunched + 1
               /\ lastPreferredLaunchTime' =
                      IF found.preferred THEN now ELSE lastPreferredLaunchTime
          ELSE UNCHANGED <<blacklist, task, tidToIndex, launched, tasksLaunched,
                           lastPreferredLaunchTime>>
       /\ scen' = ScenAfter("slaveOffer", host, None, "")
       /\ offerRun' = IF offerRun # None /\ offerRun < numTasks THEN offerRun + 1 ELSE None
       /\ UNCHANGED <<cfg, jobIdVars, clock, pendingVars, finished, numFailures, tasksFinished,
                      total_used, failed, causeOfFailure, last_check, sched>>

\* ---- the job's mutable fields as one value, so that the helpers a handler
\* ---- calls (taskFinished, taskLost, abort) compose as they do in the code

Cur ==
    [launched |-> launched, finished |-> finished, numFailures |-> numFailures,
     tasksLaunched |-> tasksLaunched, tasksFinished |-> tasksFinished,
     total_used |-> total_used, failed |-> failed,
     causeOfFailure |-> causeOfFailure, last_check |-> last_check,
     task |-> task, sched |-> sched]

Assign(s) ==
    /\ launched' = s.launched
    /\ finished' = s.finished
    /\ numFailures' = s.numFailures
    /\ tasksLaunched' = s.tasksLaunched
    /\ tasksFinished' = s.tasksFinished
    /\ total_used' = s.total_used
    /\ failed' = s.failed
    /\ causeOfFailure' = s.causeOfFailure
    /\ last_check' = s.last_check
    /\ task' = s.task
    /\ sched' = s.sched

\* ---- abort (job.py:281-286) ----

\* abort forgetting self.sched.shutdown()
abort_withoutShutdown(s, message) ==
    [s EXCEPT !.failed = TRUE,
              !.causeOfFailure = message,
              !.sched = [@ EXCEPT !.jobFinished = @ + 1]]

abort(s, message) ==
    [s EXCEPT !.failed = TRUE,
              !.causeOfFailure = message,
              !.sched = [@ EXCEPT !.jobFinished = @ + 1, !.shutdown = @ + 1]]

\* ---- taskFinished (job.py:181-203) ----

\* taskFinished forgetting self.sched.taskEnded(task, Success(), ...)
taskFinished_withoutTaskEnded(s, tid, tried, now) ==
    LET i == tidToIndex[tid]
        used == s.task[i].used + (now - s.task[i].start)
        nFinished == s.tasksFinished + 1
    IN [s EXCEPT !.finished = [@ EXCEPT ![i] = TRUE],
                 !.tasksFinished = nFinished,
                 !.task = [@ EXCEPT ![i] = [@ EXCEPT !.used = used]],
                 !.total_used = @ + used,
                 !.sched = [@ EXCEPT !.killTask = @ + Cardinality({a \in 1 .. s.task[i].tried : a # tried}),
                                     !.jobFinished =
                                         IF nFinished = numTasks THEN @ + 1 ELSE @]]

\* the attempts t+1, t in range(task.tried), other than the reported one
OtherAttempts(taskTried, tried) == {a \in 1 .. taskTried : a # tried}

taskFinished(s, tid, tried, now) ==
    LET i == tidToIndex[tid]
        used == s.task[i].used + (now - s.task[i].start)
        nFinished == s.tasksFinished + 1
        kills == Cardinality(OtherAttempts(s.task[i].tried, tried))
    IN [s EXCEPT !.finished = [@ EXCEPT ![i] = TRUE],
                 !.tasksFinished = nFinished,
                 !.task = [@ EXCEPT ![i] = [@ EXCEPT !.used = used]],
                 !.total_used = @ + used,
                 !.sched = [@ EXCEPT !.taskEndedSuccess = [@ EXCEPT ![i] = @ + 1],
                                     !.killTask = @ + kills,
                                     !.jobFinished =
                                         IF nFinished = numTasks THEN @ + 1 ELSE @]]

\* ---- taskLost (job.py:205-234) ----

\* taskLost forgetting self.tasksLaunched -= 1
taskLost_keepsCount(s, tid, tried, status, reason) ==
    LET index == tidToIndex[tid]
        s1 == [s EXCEPT !.launched = [@ EXCEPT ![index] = FALSE],
                        !.sched = [@ EXCEPT !.requestMoreResources =
                                      IF s.tasksLaunched = numTasks THEN @ + 1 ELSE @],
                        !.tasksLaunched = @]
    IN IF reason = "FetchFailed"
       THEN [s1 EXCEPT !.sched = [@ EXCEPT !.taskEndedFailure = [@ EXCEPT ![index] = @ + 1],
                                           !.jobFinished =
                                               IF s1.tasksFinished + 1 = numTasks
                                               THEN @ + 1 ELSE @],
                       !.finished = [@ EXCEPT ![index] = TRUE],
                       !.tasksFinished = @ + 1]
       ELSE IF status \in {TASK_FAILED, TASK_LOST}
            THEN LET s2 == [s1 EXCEPT !.numFailures = [@ EXCEPT ![index] = @ + 1]]
                 IN IF s2.numFailures[index] > MAX_TASK_FAILURES
                    THEN abort(s2, "Task failed more than MAX_TASK_FAILURES times")
                    ELSE s2
            ELSE s1

\* taskLost aborting one failure late
taskLost_abortsLate(s, tid, tried, status, reason) ==
    LET index == tidToIndex[tid]
        s1 == [s EXCEPT !.launched = [@ EXCEPT ![index] = FALSE],
                        !.sched = [@ EXCEPT !.requestMoreResources =
                                      IF s.tasksLaunched = numTasks THEN @ + 1 ELSE @],
                        !.tasksLaunched = @ - 1]
    IN IF reason = "FetchFailed"
       THEN [s1 EXCEPT !.sched = [@ EXCEPT !.taskEndedFailure = [@ EXCEPT ![index] = @ + 1],
                                           !.jobFinished =
                                               IF s1.tasksFinished + 1 = numTasks
                                               THEN @ + 1 ELSE @],
                       !.finished = [@ EXCEPT ![index] = TRUE],
                       !.tasksFinished = @ + 1]
       ELSE IF status \in {TASK_FAILED, TASK_LOST}
            THEN LET s2 == [s1 EXCEPT !.numFailures = [@ EXCEPT ![index] = @ + 1]]
                 IN IF s2.numFailures[index] > MAX_TASK_FAILURES + 1
                    THEN abort(s2, "Task failed more than MAX_TASK_FAILURES times")
                    ELSE s2
            ELSE s1

\* taskLost counting a Killed report as a failure (job.py:228)
taskLost_countsKilled(s, tid, tried, status, reason) ==
    LET index == tidToIndex[tid]
        s1 == [s EXCEPT !.launched = [@ EXCEPT ![index] = FALSE],
                        !.sched = [@ EXCEPT !.requestMoreResources =
                                      IF s.tasksLaunched = numTasks THEN @ + 1 ELSE @],
                        !.tasksLaunched = @ - 1]
    IN IF reason = "FetchFailed"
       THEN [s1 EXCEPT !.sched = [@ EXCEPT !.taskEndedFailure = [@ EXCEPT ![index] = @ + 1],
                                           !.jobFinished =
                                               IF s1.tasksFinished + 1 = numTasks
                                               THEN @ + 1 ELSE @],
                       !.finished = [@ EXCEPT ![index] = TRUE],
                       !.tasksFinished = @ + 1]
       ELSE IF status \in {TASK_FAILED, TASK_LOST, TASK_KILLED}
            THEN LET s2 == [s1 EXCEPT !.numFailures = [@ EXCEPT ![index] = @ + 1]]
                 IN IF s2.numFailures[index] > MAX_TASK_FAILURES
                    THEN abort(s2, "Task failed more than MAX_TASK_FAILURES times")
                    ELSE s2
            ELSE s1

\* taskLost without the return that ends the fetch-failure path (job.py:223)
taskLost_fetchFallsThrough(s, tid, tried, status, reason) ==
    LET index == tidToIndex[tid]
        s1 == [s EXCEPT !.launched = [@ EXCEPT ![index] = FALSE],
                        !.sched = [@ EXCEPT !.requestMoreResources =
                                      IF s.tasksLaunched = numTasks THEN @ + 1 ELSE @],
                        !.tasksLaunched = @ - 1]
        sf == IF reason = "FetchFailed"
              THEN [s1 EXCEPT !.sched = [@ EXCEPT !.taskEndedFailure = [@ EXCEPT ![index] = @ + 1],
                                                  !.jobFinished =
                                                      IF s1.tasksFinished + 1 = numTasks
                                                      THEN @ + 1 ELSE @],
                              !.finished = [@ EXCEPT ![index] = TRUE],
                              !.tasksFinished = @ + 1]
              ELSE s1
    IN IF status \in {TASK_FAILED, TASK_LOST}
       THEN LET s2 == [sf EXCEPT !.numFailures = [@ EXCEPT ![index] = @ + 1]]
            IN IF s2.numFailures[index] > MAX_TASK_FAILURES
               THEN abort(s2, "Task failed more than MAX_TASK_FAILURES times")
               ELSE s2
       ELSE sf

taskLost(s, tid, tried, status, reason) ==
    LET index == tidToIndex[tid]
        s1 == [s EXCEPT !.launched = [@ EXCEPT ![index] = FALSE],
                        !.sched = [@ EXCEPT !.requestMoreResources =
                                      IF s.tasksLaunched = numTasks THEN @ + 1 ELSE @],
                        !.tasksLaunched = @ - 1]
    IN IF reason = "FetchFailed"
       THEN [s1 EXCEPT !.sched = [@ EXCEPT !.taskEndedFailure = [@ EXCEPT ![index] = @ + 1],
                                           !.jobFinished =
                                               IF s1.tasksFinished + 1 = numTasks
                                               THEN @ + 1 ELSE @],
                       !.finished = [@ EXCEPT ![index] = TRUE],
                       !.tasksFinished = @ + 1]
       ELSE IF status \in {TASK_FAILED, TASK_LOST}
            THEN LET s2 == [s1 EXCEPT !.numFailures = [@ EXCEPT ![index] = @ + 1]]
                 IN IF s2.numFailures[index] > MAX_TASK_FAILURES
                    THEN abort(s2, "Task failed more than MAX_TASK_FAILURES times")
                    ELSE s2
            ELSE s1

\* ---- statusUpdate (job.py:155-179) ----

\* statusUpdateTracked without the repair of launched[i] (job.py:169-171)
statusUpdateTracked_withoutRepair(i, tid, tried, status, reason, now) ==
    LET s0 == [Cur EXCEPT !.task = [@ EXCEPT ![i] = [@ EXCEPT !.status = status]]]
        s1 == IF status = TASK_FINISHED THEN taskFinished(s0, tid, tried, now)
              ELSE IF status \in {TASK_LOST, TASK_FAILED, TASK_KILLED}
                   THEN taskLost(s0, tid, tried, status, reason)
                   ELSE s0
    IN [s1 EXCEPT !.task = [@ EXCEPT ![i] = [@ EXCEPT !.start = now]]]

\* the state after the report, for a tracked index i that is not finished
statusUpdateTracked(i, tid, tried, status, reason, now) ==
    LET s0 == [Cur EXCEPT !.task = [@ EXCEPT ![i] = [@ EXCEPT !.status = status]],
                          !.launched = [@ EXCEPT ![i] = TRUE],
                          !.tasksLaunched = IF launched[i] THEN @ ELSE @ + 1]
        s1 == IF status = TASK_FINISHED THEN taskFinished(s0, tid, tried, now)
              ELSE IF status \in {TASK_LOST, TASK_FAILED, TASK_KILLED}
                   THEN taskLost(s0, tid, tried, status, reason)
                   ELSE s0
    IN [s1 EXCEPT !.task = [@ EXCEPT ![i] = [@ EXCEPT !.start = now]]]

\* statusUpdate without the test of finished[i] (job.py:161-164)
statusUpdate_ignoresFinished(tid, tried, status, reason) ==
    LET now == clock
    IN /\ UNCHANGED <<cfg, jobIdVars, clock, pendingVars, blacklist, tidToIndex,
                      lastPreferredLaunchTime, host_cache>>
       /\ offerRun' = None
       /\ scen' = ScenAfter("statusUpdate", tid, status, reason)
       /\ IF ~Tracked(tid)
          THEN Assign(Cur)
          ELSE Assign(statusUpdateTracked(tidToIndex[tid], tid, tried, status,
                                          reason, now))

statusUpdate(tid, tried, status, reason) ==
    LET now == clock
    IN /\ UNCHANGED <<cfg, jobIdVars, clock, pendingVars, blacklist, tidToIndex,
                      lastPreferredLaunchTime, host_cache>>
       /\ offerRun' = None
       /\ scen' = ScenAfter("statusUpdate", tid, status, reason)
       /\ IF ~Tracked(tid)
          THEN Assign(Cur)
          ELSE IF finished[tidToIndex[tid]]
               THEN Assign(Cur)
               ELSE Assign(statusUpdateTracked(tidToIndex[tid], tid, tried, status,
                                               reason, now))

\* ---- taskEverageTime (job.py:78-82) ----

\* the average as a fraction num/den: total_used / tasksFinished is a division
\* of floats, so used > avg * k is compared as used * den > num * k
taskEverageTime(s) ==
    IF s.tasksFinished = 0 THEN [num |-> DEFAULT_AVERAGE, den |-> 1]
    ELSE IF s.total_used >= MIN_AVERAGE * s.tasksFinished
         THEN [num |-> s.total_used, den |-> s.tasksFinished]
         ELSE [num |-> MIN_AVERAGE, den |-> 1]

\* ---- check_task_timeout (job.py:236-279) ----

\* pass 1 giving up a launch already at WAIT_FOR_RUNNING seconds (job.py:250)
StuckStart_atDeadline(s, i, now) ==
    /\ s.launched[i]
    /\ s.task[i].status = TASK_STARTING
    /\ s.task[i].start + WAIT_FOR_RUNNING <= now

\* pass 1 (job.py:247-254): launched indices still Starting after WAIT_FOR_RUNNING
StuckStart(s, i, now) ==
    /\ s.launched[i]
    /\ s.task[i].status = TASK_STARTING
    /\ s.task[i].start + WAIT_FOR_RUNNING < now

unlaunchStuck(s, now) ==
    LET stuck == {i \in Indices : StuckStart(s, i, now)}
    IN [s EXCEPT !.launched = [i \in Indices |-> IF i \in stuck THEN FALSE ELSE @[i]],
                 !.tasksLaunched = @ - Cardinality(stuck)]

\* the candidates of pass 2 visited from the latest start to the earliest
RECURSIVE SortByStart_latestFirst(_, _)
SortByStart_latestFirst(S, s) ==
    IF S = {} THEN <<>>
    ELSE LET first == CHOOSE i \in S :
                         \A j \in S : \/ s.task[i].start > s.task[j].start
                                      \/ s.task[i].start = s.task[j].start /\ i >= j
         IN <<first>> \o SortByStart_latestFirst(S \ {first}, s)

\* sorted((task.start, i, task) ...): ascending start, then ascending index
RECURSIVE SortByStart(_, _)
SortByStart(S, s) ==
    IF S = {} THEN <<>>
    ELSE LET first == CHOOSE i \in S :
                         \A j \in S : \/ s.task[i].start < s.task[j].start
                                      \/ s.task[i].start = s.task[j].start /\ i <= j
         IN <<first>> \o SortByStart(S \ {first}, s)

\* used > avg * (task.tried + 1) and used > 30 (job.py:264)
IsStraggler(s, idx, now, avg) ==
    LET used == now - s.task[idx].start
    IN /\ used * avg.den > avg.num * (s.task[idx].tried + 1)
       /\ used > STRAGGLER_MIN

\* the loop of pass 2 (job.py:261-278) over the sorted indices still to visit
RECURSIVE scanStragglers(_, _, _, _)
scanStragglers(s, order, now, avg) ==
    IF order = <<>> THEN s
    ELSE LET idx == Head(order)
             used == now - s.task[idx].start
         IN IF IsStraggler(s, idx, now, avg)
            THEN IF s.task[idx].tried <= MAX_TASK_FAILURES
                 THEN scanStragglers(
                        [s EXCEPT !.task = [@ EXCEPT ![idx] =
                                              [@ EXCEPT !.used = @ + used,
                                                        !.start = now]],
                                  !.launched = [@ EXCEPT ![idx] = FALSE],
                                  !.tasksLaunched = @ - 1],
                        Tail(order), now, avg)
                 ELSE scanStragglers(abort(s, "task timeout"), Tail(order), now, avg)
            ELSE s

\* pass 2 (job.py:256-278)
resubmitStragglers(s, now) ==
    IF s.tasksFinished > numTasks \div 3
    THEN scanStragglers(s,
                        SortByStart({i \in Indices : s.launched[i] /\ ~s.finished[i]}, s),
                        now, taskEverageTime(s))
    ELSE s

\* the state after a check that passed the rate limit
checkedState(now) ==
    LET n == CountTrue(launched)
        s0 == [Cur EXCEPT !.last_check = now, !.tasksLaunched = n]
    IN resubmitStragglers(unlaunchStuck(s0, now), now)

\* what the call returns (job.py:239, 279)
check_task_timeoutResult ==
    IF last_check + CHECK_INTERVAL > clock THEN FALSE
    ELSE checkedState(clock).tasksLaunched < CountTrue(launched)

\* check_task_timeout without the rate limit (job.py:238-239)
check_task_timeout_noRateLimit ==
    LET now == clock
    IN /\ Assign(checkedState(now))
       /\ scen' = ScenAfter("check_task_timeout", None, None, "")
       /\ offerRun' = None
       /\ UNCHANGED <<cfg, jobIdVars, clock, pendingVars, blacklist, tidToIndex,
                      lastPreferredLaunchTime, host_cache>>

check_task_timeout ==
    LET now == clock
    IN /\ IF last_check + CHECK_INTERVAL > now
          THEN Assign(Cur)
          ELSE Assign(checkedState(now))
       /\ scen' = ScenAfter("check_task_timeout", None, None, "")
       /\ offerRun' = None
       /\ UNCHANGED <<cfg, jobIdVars, clock, pendingVars, blacklist, tidToIndex,
                      lastPreferredLaunchTime, host_cache>>

\* ---- the callers: what the scheduler may do with the job ----

\* a report is made unless it would take a counter past the run's limits,
\* tells of the loss of a task the run never loses or, in a run whose reports
\* only tell of a change, repeats the task's status
ReportAllowed(tid, status, reason) ==
    IF ~Tracked(tid) THEN TRUE
    ELSE LET i == tidToIndex[tid]
         IN IF cfg.changesOnly /\ task[i].status = status THEN FALSE
            ELSE IF finished[i] \/ status \notin LossStatuses THEN TRUE
            ELSE IF i \notin cfg.lossy THEN FALSE
            ELSE IF reason = "FetchFailed" THEN TRUE
            ELSE IF status = TASK_KILLED
                 THEN sched.requestMoreResources < cfg.maxRequests
                 ELSE numFailures[i] < cfg.maxFailures

\* hosts are alike: in a run whose hosts come forward in ascending order, an
\* offer is from the last host that came forward or from the next one
OfferAllowed(host) ==
    IF cfg.ascending
    THEN LET n == Cardinality(host_cache) IN host = n \/ host = n + 1
    ELSE TRUE

OfferStep == \E host \in Hosts : OfferAllowed(host) /\ slaveOffer(host)

\* the attempt number matters to a Finished report only, the reason to a
\* Lost, Failed or Killed one: the other reports carry attempt 1 and "oom"
AttemptsOf(status) == IF status = TASK_FINISHED THEN 1 .. cfg.maxTried ELSE {1}
ReasonsOf(status) == IF status \in LossStatuses THEN cfg.reasons ELSE {"oom"}

ReportStep ==
    \E tid \in Tids, status \in cfg.statuses :
        \E tried \in AttemptsOf(status), reason \in ReasonsOf(status) :
            /\ ReportAllowed(tid, status, reason)
            /\ statusUpdate(tid, tried, status, reason)

CheckStep == check_task_timeout

Next == OfferStep \/ ReportStep \/ CheckStep \/ Tick

\* ---- the jobs and runs explored ----

NoPrefs(n) == [i \in 0 .. (n - 1) |-> {}]
\* task 0 prefers host 1, the other tasks have no preferred location
PrefersFirst(n) == [i \in 0 .. (n - 1) |-> IF i = 0 THEN {1} ELSE {}]
\* every name resolves to itself alone
NoAliases(H) == [h \in H |-> <<h>>]

\* a job with preferences p on hosts 1..nHosts, whose callers report the
\* statuses sts with the reasons rs, stop reporting failures of an index after
\* maxFail of them, and let maxElapsed seconds pass
Config(p, nHosts, sts, rs, maxFail, maxElapsed) ==
    [numTasks |-> Cardinality(DOMAIN p), prefs |-> p, hosts |-> 1 .. nHosts,
     resolve |-> NoAliases(1 .. nHosts), statuses |-> sts, reasons |-> rs,
     maxElapsed |-> maxElapsed, maxFailures |-> maxFail,
     maxRequests |-> MaxRequests, maxTried |-> nHosts, ticks |-> {TickStep},
     endless |-> FALSE, changesOnly |-> FALSE,
     ascending |-> FALSE, lossy |-> DOMAIN p]

\* one task, every status, up to MaxFailures failures, at one instant
CfgA == Config(NoPrefs(1), NumHosts, Statuses, Reasons, MaxFailures, 0)
\* one task lost up to MaxFailures times, while time passes
CfgT == Config(NoPrefs(1), NumHosts, {TASK_FINISHED, TASK_LOST}, {"oom"},
               MaxFailures, MaxElapsed)
\* NumTasks tasks on one host, each lost at most once, while time passes
CfgB == Config(NoPrefs(NumTasks), 1, {TASK_RUNNING, TASK_FINISHED, TASK_LOST},
               {"oom"}, 1, MaxElapsed)
\* the same with fetch failures as the only losses
CfgF == Config(NoPrefs(NumTasks), 1, {TASK_RUNNING, TASK_FINISHED, TASK_LOST},
               {"FetchFailed"}, 0, MaxElapsed)
\* task 0 prefers host 1 and is lost at most once, at one instant
CfgC == [Config(PrefersFirst(NumTasks), NumHosts, {TASK_FINISHED, TASK_LOST},
                {"oom"}, 1, 0)
            EXCEPT !.maxTried = 1, !.lossy = {0}]
\* one task that is never reported, while time passes in steps of
\* WAIT_FOR_RUNNING seconds and of just under CHECK_INTERVAL seconds
CfgR == [Config(NoPrefs(1), NumHosts, {TASK_RUNNING}, {"oom"}, 0, MaxElapsed)
            EXCEPT !.ticks = {WAIT_FOR_RUNNING, CHECK_INTERVAL - 1}]
\* NumTasks tasks that report once that they run and nothing after, for ever
CfgL == [Config(NoPrefs(NumTasks), 1, {TASK_RUNNING}, {"oom"}, 0, MaxElapsed)
            EXCEPT !.endless = TRUE, !.changesOnly = TRUE]
\* the scenario's job: three tasks without preferences, three hosts
CfgS == Config(NoPrefs(3), 3, {TASK_FINISHED, TASK_LOST}, {"oom"}, 1, 0)

Configs == {CfgA, CfgT, CfgB, CfgF, CfgC, CfgR}

Init == \E c \in Configs : InitWith(c)

Spec == Init /\ [][Next]_vars

\* the driving loop keeps calling check_task_timeout as time advances, on a
\* job whose tasks never report more than that they run
InitPolled == InitWith(CfgL)

SpecPolled == InitPolled /\ [][Next]_vars /\ WF_vars(Tick) /\ WF_vars(CheckStep)

\* offers keep arriving from every host of the job's host set
InitOffered == InitWith(CfgA) \/ InitWith(CfgC) \/ InitWith(CfgT)

SpecOffered ==
    InitOffered /\ [][Next]_vars
         /\ \A h \in 1 .. NumHosts : WF_vars(h \in Hosts /\ slaveOffer(h))

\* the constructions of Jobs by the threads, their steps interleaved
Construct ==
    /\ \E t \in Threads : newJobIdLoad(t) \/ newJobIdStore(t) \/ newJobIdReturn(t)
    /\ UNCHANGED <<cfg, clock, jobVars, pendingVars, task, sched, scen, offerRun>>

\* no Job constructed yet; the fields of the SimpleJob play no part
InitJobId == NoJobYet /\ JobFields(CfgA)

SpecJobId == InitJobId /\ [][Construct]_vars

\* four tasks on one host that report that they run and that they finish,
\* each once, while time passes
CfgQ == [Config(NoPrefs(4), 1, {TASK_RUNNING, TASK_FINISHED}, {"oom"}, 0, MaxElapsed)
            EXCEPT !.changesOnly = TRUE]
\* two tasks on MAX_TASK_FAILURES + 1 hosts that come forward in ascending
\* order, task 1 lost up to MAX_TASK_FAILURES times, then STRAGGLER_MIN + 1
\* seconds pass at once
CfgG == [Config(NoPrefs(2), MAX_TASK_FAILURES + 1,
                {TASK_RUNNING, TASK_FINISHED, TASK_LOST}, {"oom"},
                MAX_TASK_FAILURES, MaxElapsed)
            EXCEPT !.changesOnly = TRUE, !.ticks = {STRAGGLER_MIN + 1},
                   !.maxTried = 1, !.ascending = TRUE, !.lossy = {1}]

\* the jobs on which the straggler pass meets several running tasks, or a
\* task already launched more than MAX_TASK_FAILURES times
InitStragglers == InitWith(CfgQ) \/ InitWith(CfgG)

SpecStragglers == InitStragglers /\ [][Next]_vars

\* the scenario's job, next to a job on which time passes
InitScenario == InitWith(CfgS) \/ InitWith(CfgB)

SpecScenario == InitScenario /\ [][Next]_vars

\* ---- the claims ----

\* C1: tasksLaunched is the number of indices with launched[i] true and
\* tasksFinished the number of indices with finished[i] true, after any
\* sequence of slaveOffer, statusUpdate and check_task_timeout calls.
C1_CountersMatchFlags ==
    /\ tasksLaunched = CountTrue(launched)
    /\ tasksFinished = CountTrue(finished)

\* C1 witness: an index has finished, a check has unlaunched a straggler
\* (its elapsed time folded into used) and a report has unlaunched another
\* index or the same one again.
C1_Witness ==
    /\ last_check > 0
    /\ tasksFinished >= 1
    /\ tasksLaunched = 1
    /\ \E i \in Indices :
          /\ ~launched[i] /\ ~finished[i]
          /\ task[i].used > 0 /\ numFailures[i] = 1

\* C2 as written: every finished index has had exactly one success
\* notification (taskEnded with Success).
C2_FinishedHasOneSuccess ==
    \A i \in Indices : finished[i] => sched.taskEndedSuccess[i] = 1

\* C2 as amended: every finished index has had exactly one taskEnded
\* notification, a success if a Finished report finished it, and the failure
\* reason, with no success notification, if a fetch failure ended it.
C2_FinishedHasOneTaskEnded ==
    \A i \in Indices :
        finished[i] =>
            /\ sched.taskEndedSuccess[i] + sched.taskEndedFailure[i] = 1
            /\ sched.taskEndedSuccess[i] = 1 <=> task[i].status = TASK_FINISHED

\* C2 witness: one index finished by a Finished report, another ended by a
\* fetch failure.
C2_Witness ==
    \E i, j \in Indices :
        /\ finished[i] /\ sched.taskEndedSuccess[i] = 1
        /\ finished[j] /\ sched.taskEndedFailure[j] = 1

\* the calls made so far are the first k calls of script
ScenAt(script, k) == cfg = CfgS /\ scen = SubSeq(script, 1, k)

MaxTried == Max({task[i].tried : i \in Indices})

\* what the scenario says of the calls both scripts share, but for the sixth
ScenarioCommon(script) ==
    /\ ScenAt(script, 1) => launched[0] /\ task[0].tried = 1 /\ task[0].host = 1
    /\ ScenAt(script, 2) => launched[1] /\ task[1].tried = 1 /\ task[1].host = 2
    /\ ScenAt(script, 3) => tasksFinished = 1 /\ finished[0]
    /\ ScenAt(script, 4) => launched[2] /\ task[2].tried = 1 /\ task[2].host = 3
    /\ ScenAt(script, 5) => numFailures[1] = 1 /\ ~launched[1]
    /\ ScenAt(script, Len(script)) =>
           /\ tasksFinished = 3
           /\ sched.jobFinished = 1
           /\ MaxTried = 2

\* C3 as written: offer(hostA), offer(hostB), Finished(task0), offer(hostC),
\* Lost(task1), then offer(hostB) relaunches task1 with tried = 2, and after
\* Finished(task1), Finished(task2) the job reports jobFinished, maximum tried 2.
C3_ScenarioAsWritten ==
    /\ ScenarioCommon(ScriptB)
    /\ ScenAt(ScriptB, 6) => launched[1] /\ task[1].tried = 2

\* C3 as amended: the sixth call, offer(hostB), returns no task, hostB being in
\* task1's blacklist; a following offer(hostA) relaunches task1 with tried = 2,
\* and after the two Finished reports jobFinished is reported once, maximum
\* tried 2.
C3_ScenarioAmended ==
    /\ ScenarioCommon(ScriptA)
    /\ ScenAt(ScriptA, 6) => /\ ~launched[1] /\ task[1].tried = 1
                             /\ tasksLaunched = 2
                             /\ slaveOfferResult(1) = 1
    /\ ScenAt(ScriptA, 7) => launched[1] /\ task[1].tried = 2 /\ task[1].host = 1

\* C3 witness: the amended script has been run to its end.
C3_Witness == ScenAt(ScriptA, Len(ScriptA)) /\ sched.jobFinished = 1

\* C4 as written: once the job is aborted, a slaveOffer from any host returns
\* no task (and so launches nothing).
C4_NoLaunchAfterAbort ==
    failed => \A host \in Hosts : slaveOfferResult(host) = None

\* C5 as written: sched.jobFinished(job) is called at most once in total.
C5_JobFinishedAtMostOnce == sched.jobFinished <= 1

\* C6: if numFailures[i] > MAX_TASK_FAILURES for some i, the job is aborted
\* (failed, with a cause of failure), and failed never returns to false.
C6_ExhaustedMeansAborted ==
    /\ [](\A i \in Indices :
             numFailures[i] > MAX_TASK_FAILURES => failed /\ causeOfFailure # "")
    /\ [][failed => failed']_vars

\* C6 witness: an index has failed more than MAX_TASK_FAILURES times and the
\* job is aborted.
C6_Witness ==
    \E i \in Indices : numFailures[i] > MAX_TASK_FAILURES /\ failed /\ causeOfFailure # ""

\* a Failed or Lost report, not a fetch failure, for a tracked unfinished index
\* (its attempt number plays no part: taskLost only logs it)
IsFailureReport(tid, status) ==
    /\ Tracked(tid)
    /\ ~finished[tidToIndex[tid]]
    /\ \E tried \in AttemptsOf(status) : statusUpdate(tid, tried, status, "oom")

\* C7: the 5th Failed/Lost report (not a fetch failure) counted against an
\* index aborts the job, with one jobFinished and one shutdown notification;
\* the 1st to 4th such reports neither abort nor send these notifications.
C7_FifthFailureAborts ==
    [][\A tid \in Tids, status \in {TASK_FAILED, TASK_LOST} :
          IsFailureReport(tid, status) =>
              LET i == tidToIndex[tid]
                  nth == numFailures[i] + 1
              IN /\ nth = 5 =>
                       /\ failed' /\ causeOfFailure' # ""
                       /\ sched'.jobFinished = sched.jobFinished + 1
                       /\ sched'.shutdown = sched.shutdown + 1
                 /\ nth <= 4 =>
                       /\ failed' = failed /\ causeOfFailure' = causeOfFailure
                       /\ sched'.jobFinished = sched.jobFinished
                       /\ sched'.shutdown = sched.shutdown]_vars

\* C7 witness: a fifth failure has been counted against an index, the job is
\* aborted and the scheduler has been told jobFinished and shutdown.
C7_Witness ==
    \E i \in Indices :
        /\ numFailures[i] = 5 /\ failed
        /\ sched.jobFinished = 1 /\ sched.shutdown = 1

\* C8: a report for an index that is already finished changes no job or task
\* state and sends no notification; a Finished report for an unfinished index
\* adds exactly one to tasksFinished, so that two Finished reports add one.
C8_DuplicateReportIsNoOp ==
    [][\A tid \in Tids :
          Tracked(tid) =>
              LET i == tidToIndex[tid]
              IN IF finished[i]
                 THEN \A status \in Statuses :
                        \A tried \in AttemptsOf(status), reason \in ReasonsOf(status) :
                          statusUpdate(tid, tried, status, reason) =>
                              UNCHANGED <<jobVars, pendingVars, task, sched>>
                 ELSE \A tried \in AttemptsOf(TASK_FINISHED) :
                          statusUpdate(tid, tried, TASK_FINISHED, "oom") =>
                              /\ finished'[i]
                              /\ tasksFinished' = tasksFinished + 1]_vars

\* C8 witness: an index is finished by a Finished report, so that any further
\* report for it is a duplicate.
C8_Witness ==
    \E i \in Indices :
        /\ Tracked(TaskId(i)) /\ finished[i] /\ task[i].status = TASK_FINISHED
        /\ tasksFinished = 1 /\ sched.taskEndedSuccess[i] = 1

\* a Lost report, not a fetch failure, for a tracked unfinished index
IsLostReport(tid) == IsFailureReport(tid, TASK_LOST)

\* C9 as written: such a report leaves launched[i] false, makes tasksLaunched
\* one less than before the call and numFailures[i] one more.
C9_LostDecrementsLaunched ==
    [][\A tid \in Tids :
          IsLostReport(tid) =>
              LET i == tidToIndex[tid]
              IN /\ ~launched'[i]
                 /\ tasksLaunched' = tasksLaunched - 1
                 /\ numFailures'[i] = numFailures[i] + 1]_vars

\* C9 as amended: such a report leaves launched[i] false and makes
\* numFailures[i] one more; tasksLaunched is one less than before the call when
\* launched[i] was true before it, and unchanged when it was already false.
C9_LostUnlaunches ==
    [][\A tid \in Tids :
          IsLostReport(tid) =>
              LET i == tidToIndex[tid]
              IN /\ ~launched'[i]
                 /\ tasksLaunched' = IF launched[i] THEN tasksLaunched - 1
                                                    ELSE tasksLaunched
                 /\ numFailures'[i] = numFailures[i] + 1]_vars

\* C9 witness: an index launched once has been reported lost twice, the second
\* time while it was not launched.
C9_Witness ==
    \E i \in Indices :
        /\ task[i].tried = 1 /\ task[i].status = TASK_LOST
        /\ numFailures[i] = 2 /\ ~launched[i] /\ ~finished[i]
        /\ sched.requestMoreResources = 2 /\ numTasks = 1

\* C10: on a job of N tasks without preferred locations, the first k <= N
\* calls, all slaveOffer, from any hosts, each return a task: k indices are
\* launched, each assigned once; after N calls every index is assigned once.
C10_OffersAssignEachOnce ==
    (offerRun # None /\ \A i \in Indices : cfg.prefs[i] = {}) =>
        /\ tasksLaunched = offerRun
        /\ \A i \in Indices : task[i].tried = (IF launched[i] THEN 1 ELSE 0)
        /\ CountTrue(launched) = offerRun
        /\ offerRun = numTasks => \A i \in Indices : launched[i]

\* C10 witness: three offers, two of them from the same host, have launched
\* the three tasks of a job without preferences.
C10_Witness ==
    /\ offerRun = 3 /\ numTasks = 3 /\ tasksLaunched = 3
    /\ \A i \in Indices : cfg.prefs[i] = {}
    /\ \E i, j \in Indices : i # j /\ task[i].host = task[j].host

\* index i is the one task that prefers host h, and prefers no other host
OnlyPrefers(i, h) ==
    /\ cfg.prefs[i] = {h}
    /\ \A j \in Indices \ {i} : h \notin cfg.prefs[j]

\* C11 as written: a task whose only preferred location is h1 is never
\* selected for another host h2 while localOnly is true, and an offer from h1
\* made while the task is unlaunched and unfinished selects it, before any
\* no-preference task.
C11_LocalityAsWritten ==
    \A i \in Indices, h1 \in Hosts :
        OnlyPrefers(i, h1) =>
            /\ \A h2 \in Hosts \ {h1} : findTask(h2, TRUE).i # i
            /\ (~launched[i] /\ ~finished[i]) =>
                   /\ \A localOnly \in BOOLEAN : findTask(h1, localOnly).i = i
                   /\ slaveOfferResult(h1) = i

\* C11 as amended: the offer from h1 selects the task while it is unlaunched,
\* unfinished and h1 is not in its blacklist.
C11_LocalityUnlessBlacklisted ==
    \A i \in Indices, h1 \in Hosts :
        OnlyPrefers(i, h1) =>
            /\ \A h2 \in Hosts \ {h1} : findTask(h2, TRUE).i # i
            /\ (~launched[i] /\ ~finished[i] /\ h1 \notin blacklist[i]) =>
                   /\ \A localOnly \in BOOLEAN : findTask(h1, localOnly).i = i
                   /\ slaveOfferResult(h1) = i

\* C11 witness: host 1's offer selected the task that prefers it while a
\* no-preference task had never been launched; the task was then lost, and the
\* next offer from host 1 gets the no-preference task, as host 2 would.
C11_Witness ==
    \E i, j \in Indices :
        /\ OnlyPrefers(i, 1) /\ cfg.prefs[j] = {}
        /\ task[i].host = 1 /\ task[i].tried = 1 /\ blacklist[i] = {1}
        /\ ~launched[i] /\ ~finished[i]
        /\ task[j].tried = 0
        /\ findTask(2, TRUE).i = j
        /\ slaveOfferResult(1) = j

\* a check has done its work less than CHECK_INTERVAL seconds ago
CheckedRecently == last_check > 0 /\ clock - last_check < CHECK_INTERVAL

\* C13: a check_task_timeout call made less than 5 seconds after a call that
\* did its work returns false, leaves every job and task field unchanged
\* (last_check included) and sends no notification.
C13_SecondCheckIsNoOp ==
    [][(CheckedRecently /\ check_task_timeout) =>
           /\ check_task_timeoutResult = FALSE
           /\ UNCHANGED <<jobVars, pendingVars, task, sched>>]_vars

\* C13 witness: a check did its work, time has passed but less than 5
\* seconds, and by now a launch is stuck in Starting: a check that did its
\* work would unlaunch it.
C13_Witness ==
    /\ CheckedRecently /\ last_check < clock
    /\ \E i \in Indices : StuckStart(Cur, i, clock)
    /\ checkedState(clock).tasksLaunched < tasksLaunched

\* C14 as written: the ids handed out start at 1 and are strictly increasing
\* in the order they are handed out, so no two Jobs share an id, also when
\* constructions interleave.
C14_IdsUniqueIncreasing ==
    /\ \A k \in 1 .. Len(issued) : issued[k] >= 1
    /\ \A k \in 1 .. (Len(issued) - 1) : issued[k] < issued[k + 1]
    /\ \A t, u \in Threads :
          (t # u /\ ctor[t].pc = "done" /\ ctor[u].pc = "done") => ctor[t].id # ctor[u].id

\* C12 as written: while check_task_timeout keeps being called as time
\* advances, no index stays launched and unfinished forever: it finishes, is
\* unlaunched, or the job is declared failed, also when no report arrives.
C12_LaunchedNotForever ==
    \A i \in 0 .. (NumTasks - 1) :
        (i \in Indices /\ launched[i] /\ ~finished[i])
            ~> (i \in Indices => (finished[i] \/ ~launched[i] \/ failed))

\* C15: an index is assigned (its tried goes up, by one) only while it is not
\* launched, not finished and has not the offering host in its blacklist, and
\* the host is then recorded there; blacklists never lose a host; so each
\* assignment of an index is to another host: tried[i] hosts got index i.
C15_AssignsEligibleOnce ==
    /\ [](\A i \in Indices : task[i].tried = Cardinality(blacklist[i]))
    /\ [][\A i \in Indices :
             /\ blacklist[i] \subseteq blacklist'[i]
             /\ task'[i].tried # task[i].tried =>
                   /\ task'[i].tried = task[i].tried + 1
                   /\ slaveOfferResult(task'[i].host) = i
                   /\ ~launched[i] /\ ~finished[i]
                   /\ task'[i].host \notin blacklist[i]
                   /\ blacklist'[i] = blacklist[i] \cup {task'[i].host}
                   /\ launched'[i]]_vars

\* C15 witness: an index was assigned to host 1, lost, assigned to host 2 and
\* lost again; now no offer from either host returns it.
C15_Witness ==
    \E i \in Indices :
        /\ task[i].tried = 2 /\ blacklist[i] = {1, 2} /\ numFailures[i] = 2
        /\ ~launched[i] /\ ~finished[i]
        /\ slaveOfferResult(1) # i /\ slaveOfferResult(2) # i

\* index i is back in the pending pool after a Failed, Killed or Lost report
\* that was no fetch failure and left its failure budget unexhausted
LostWithBudget(i) ==
    /\ i \in Indices
    /\ ~launched[i] /\ ~finished[i] /\ ~failed
    /\ task[i].status \in LossStatuses
    /\ numFailures[i] <= MAX_TASK_FAILURES

CountsFailure(tid) ==
    LET i == tidToIndex[tid]
        exceeds == numFailures[i] + 1 > MAX_TASK_FAILURES
    IN /\ numFailures'[i] = numFailures[i] + 1
       /\ exceeds => failed' /\ causeOfFailure' # ""
       /\ sched'.jobFinished = sched.jobFinished + (IF exceeds THEN 1 ELSE 0)
       /\ sched'.shutdown = sched.shutdown + (IF exceeds THEN 1 ELSE 0)

\* C17 as written: every Lost, Failed or Killed report that is no fetch
\* failure, for a tracked unfinished index, adds one to numFailures[index]
\* and aborts the job when the new value exceeds MAX_TASK_FAILURES.
C17_EveryLossCounts ==
    [][\A tid \in Tids, status \in LossStatuses :
          IsFailureReport(tid, status) => CountsFailure(tid)]_vars

\* C17 as amended: Lost and Failed reports do so; a Killed report leaves
\* numFailures[index] as it is and does not abort.
C17_LostAndFailedCount ==
    [][\A tid \in Tids, status \in LossStatuses :
          IsFailureReport(tid, status) =>
              IF status = TASK_KILLED
              THEN /\ numFailures' = numFailures
                   /\ failed' = failed /\ causeOfFailure' = causeOfFailure
                   /\ sched'.jobFinished = sched.jobFinished
                   /\ sched'.shutdown = sched.shutdown
              ELSE CountsFailure(tid)]_vars

\* C17 witness: the one task of a job was reported Killed and then Failed (after
\* each the scheduler was asked for more resources); one failure is counted.
C17_Witness ==
    /\ numTasks = 1 /\ task[0].status = TASK_FAILED
    /\ sched.requestMoreResources = 2 /\ numFailures[0] = 1
    /\ ~finished[0] /\ ~failed

\* a Lost, Failed or Killed report whose reason is a fetch failure, for a
\* tracked unfinished index
IsFetchFailure(tid, status) ==
    /\ Tracked(tid)
    /\ ~finished[tidToIndex[tid]]
    /\ \E tried \in AttemptsOf(status) : statusUpdate(tid, tried, status, "FetchFailed")

\* C18: such a report ends the index without retry: taskEnded with the
\* failure reason and no success, finished[index] true, tasksFinished one
\* more, launched[index] false, numFailures[index] unchanged, no abort,
\* jobFinished exactly if tasksFinished is now numTasks; and an index that is
\* finished and not launched stays so: it is never launched again.
C18_FetchFailureEndsIndex ==
    [][/\ \A tid \in Tids, status \in LossStatuses :
             IsFetchFailure(tid, status) =>
                 LET i == tidToIndex[tid]
                 IN /\ sched'.taskEndedFailure[i] = sched.taskEndedFailure[i] + 1
                    /\ sched'.taskEndedSuccess = sched.taskEndedSuccess
                    /\ finished'[i] /\ tasksFinished' = tasksFinished + 1
                    /\ ~launched'[i]
                    /\ numFailures' = numFailures
                    /\ failed' = failed /\ sched'.shutdown = sched.shutdown
                    /\ sched'.jobFinished = sched.jobFinished +
                           (IF tasksFinished + 1 = numTasks THEN 1 ELSE 0)
       /\ \A i \in Indices :
             (finished[i] /\ ~launched[i]) => (finished'[i] /\ ~launched'[i])]_vars

\* C18 witness: a fetch failure has ended one index of a job while another
\* index is not finished, so no jobFinished was sent; no failure is counted.
C18_Witness ==
    \E i, j \in Indices :
        /\ finished[i] /\ ~launched[i] /\ sched.taskEndedFailure[i] = 1
        /\ numFailures[i] = 0 /\ tasksFinished = 1
        /\ ~finished[j] /\ sched.jobFinished = 0 /\ ~failed

\* the launched, unfinished indices still Starting more than WAIT_FOR_RUNNING
\* seconds after their start
StuckStarts ==
    {i \in Indices : /\ launched[i] /\ ~finished[i]
                     /\ task[i].status = TASK_STARTING
                     /\ task[i].start + WAIT_FOR_RUNNING < clock}

PassesRateLimit == last_check + CHECK_INTERVAL <= clock

Pass2Runs == tasksFinished > numTasks \div 3

\* C19: a check_task_timeout call that passes the rate limit unlaunches every
\* launched, unfinished index that is Starting and started more than 15
\* seconds ago, leaving it unfinished for a later offer; when the straggler
\* pass does not run, tasksLaunched drops by one per such index and every
\* other index keeps its launched flag; when it runs, a launched index that
\* is not Starting, or started within 15 seconds, is not unlaunched unless it
\* is at least STRAGGLER_MIN seconds old.
C19_StuckStartsUnlaunched ==
    [][(PassesRateLimit /\ check_task_timeout) =>
           /\ \A i \in StuckStarts : ~launched'[i] /\ ~finished'[i]
           /\ ~Pass2Runs =>
                 /\ \A i \in Indices \ StuckStarts : launched'[i] = launched[i]
                 /\ tasksLaunched' = tasksLaunched - Cardinality(StuckStarts)
           /\ \A i \in Indices \ StuckStarts :
                 (launched[i] /\ ~launched'[i]) =>
                     (Pass2Runs /\ clock - task[i].start > STRAGGLER_MIN)]_vars

\* C19 witness: a check has just unlaunched an index stuck in Starting and
\* left launched another index that reported Running.
C19_Witness ==
    \E i, j \in Indices :
        /\ last_check = clock
        /\ ~launched[i] /\ ~finished[i] /\ task[i].status = TASK_STARTING
        /\ task[i].tried >= 1 /\ task[i].start + WAIT_FOR_RUNNING < clock
        /\ launched[j] /\ task[j].status = TASK_RUNNING /\ tasksLaunched = 1

\* the indices pass 2 looks at: launched and unfinished once pass 1 is done
Pass2Candidates == {i \in Indices : launched[i] /\ ~finished[i]} \ StuckStarts

Elapsed(i) == clock - task[i].start

\* elapsed > avg * (tried + 1) and elapsed > 30, the average being a fraction
Qualifies(i) ==
    LET avg == taskEverageTime(Cur)
    IN /\ Elapsed(i) * avg.den > avg.num * (task[i].tried + 1)
       /\ Elapsed(i) > STRAGGLER_MIN

\* j is scanned before i: earlier start, the lower index first among equals
ScannedBefore(j, i) ==
    \/ task[j].start < task[i].start
    \/ task[j].start = task[i].start /\ j < i

\* the candidates the scan treats as stragglers: those that qualify, as does
\* every candidate scanned before them
Stragglers ==
    {i \in Pass2Candidates :
        /\ Pass2Runs /\ Qualifies(i)
        /\ \A j \in Pass2Candidates : ScannedBefore(j, i) => Qualifies(j)}

Resubmitted == {i \in Stragglers : task[i].tried <= MAX_TASK_FAILURES}

StragglerAborted ==
    \E i \in Indices :
        /\ failed /\ causeOfFailure = "task timeout"
        /\ task[i].tried > MAX_TASK_FAILURES /\ launched[i] /\ ~finished[i]
====
